---- MODULE Spec2Model ----
(***************************************************************************)
(* Model of VictoriabankMiaApi (victoriabank_mia_api.py): the dispatcher   *)
(* that validates a call's arguments and hands it to the transport client  *)
(* VictoriabankMiaSdk (send_request / handle_response).                    *)
(*                                                                         *)
(* One action per public operation.  An action is the whole call: the      *)
(* validation, the send, the response handling and the outcome.  What the  *)
(* transport does with a request (return a response, raise a fault) is the *)
(* environment's choice, drawn with \E.                                    *)
(***************************************************************************)
EXTENDS Integers, Sequences, FiniteSets

VARIABLES
    client,     \* self._client
    calls,      \* number of public operations called so far
    call,       \* the arguments of the last call, as the caller passed them
    sent,       \* the send_request invocations of the last call, in order
    handled,    \* the handle_response invocations of the last call, in order
    outcome     \* how the last call ended: a returned value or a raised exception

vars == <<client, calls, call, sent, handled, outcome>>

----------------------------------------------------------------------------
(* Bounds *)

MaxStrLen == 1      \* tokens and identifiers are strings of at most this length
MaxCalls == 2       \* calls made on one dispatcher

----------------------------------------------------------------------------
(* Python values: None, str, dict, list *)

None == [t |-> "None"]
Str(s) == [t |-> "str", v |-> s]
Dict(f) == [t |-> "dict", v |-> f]
List(s) == [t |-> "list", v |-> s]

\* len(x)
PyLen(x) ==
    IF x.t = "dict" THEN Cardinality(DOMAIN x.v) ELSE Len(x.v)

\* bool(x), as `if x` and `not x` compute it
Truthy(x) ==
    IF x.t = "None" THEN FALSE ELSE PyLen(x) > 0

\* data.get(key)
DictGet(d, key) ==
    IF key \in DOMAIN d.v THEN d.v[key] ELSE None

\* the arguments of a call; an argument the operation does not take is None
Args(op, entity_id, data, params, token) ==
    [op |-> op, entity_id |-> entity_id, data |-> data, params |-> params, token |-> token]

Chars == {"a"}
Strings == UNION {[1..k -> Chars] : k \in 0..MaxStrLen}

\* what a caller may pass as token or as identifier: None, "" or a non-empty string
Tokens == {None} \cup {Str(s) : s \in Strings}
Ids == {None} \cup {Str(s) : s \in Strings}

Fields == {"header", "extension", "qrHeaderUUID"}
FieldValues == {None, Str(<<"a">>)}

\* what a caller may pass as data: None or a mapping, the empty mapping included
Payloads == {None} \cup {Dict(f) : f \in UNION {[D -> FieldValues] : D \in SUBSET Fields}}

\* what a caller may pass as the data of an operation that validates no field of it
OpaquePayloads ==
    {None, Dict([k \in {} |-> None]), Dict([k \in {"amount"} |-> Str(<<"a">>)])}

\* what a caller may pass as params: the empty mapping or a filter
Params == {Dict([k \in {} |-> None]), Dict([k \in {"limit"} |-> Str(<<"a">>)])}

----------------------------------------------------------------------------
(* The transport client, VictoriabankMiaSdk *)

\* VictoriabankMiaSdk(base_url=...)
VictoriabankMiaSdk(base_url) == [base_url |-> base_url]

BaseUrls == {"DEFAULT_BASE_URL", "https://custom.example"}

\* exceptions are values: a class, a message (the pieces of the f-string), a cause
NoError == [type |-> "none"]
NoCause == [type |-> "none"]

VictoriabankPaymentException(msg, cause) ==
    [type |-> "VictoriabankPaymentException", msg |-> msg, cause |-> cause]

\* the faults send_request may raise: connection error, timeout, serialization fault
Faults ==
    { [type |-> "ConnectionError", msg |-> <<"connection refused">>],
      [type |-> "Timeout", msg |-> <<"read timed out">>] }

\* a handler that catches connection errors alone
ConnectionErrorsOnly == {"ConnectionError"}

\* the classes `except Exception` catches
ExceptionClasses == {"ConnectionError", "Timeout", "TypeError", "VictoriabankPaymentException"}

\* str(ex)
StrOf(ex) == ex.msg[1]

\* the raw responses send_request may return
Responses ==
    { [status |-> 200, body |-> "ok"],
      [status |-> 404, body |-> "error"] }

\* what send_request does with one request: returns a response or raises a fault
Behaviours ==
    {[kind |-> "return", value |-> r] : r \in Responses}
        \cup {[kind |-> "raise", exc |-> f] : f \in Faults}

Returned(v) == [kind |-> "return", value |-> v]
Raised(e) == [kind |-> "raise", exc |-> e]

\* handle_response(response, endpoint): 2xx to the decoded success value, anything
\* else to a domain error carrying the status and the decoded error body
handle_response(response, endpoint) ==
    IF response.status \in 200..299
        THEN Returned([decoded |-> response.body])
        ELSE Raised([type |-> "VictoriabankPaymentException",
                     msg |-> <<"Error sending request to endpoint ", endpoint>>,
                     cause |-> NoCause,
                     status |-> response.status,
                     body |-> response.body])

----------------------------------------------------------------------------
(* The endpoint references of VictoriabankMiaSdk the dispatcher names *)

MIA_QR == "MIA_QR"
MIA_QR_STATUS == "MIA_QR_STATUS"
MIA_QR_ID == "MIA_QR_ID"
MIA_QR_EXTENSIONS == "MIA_QR_EXTENSIONS"
MIA_QR_ACTIVE_EXTENSION == "MIA_QR_ACTIVE_EXTENSION"
MIA_QR_EXTENSION_STATUS == "MIA_QR_EXTENSION_STATUS"
MIA_TRANSACTIONS_LIST == "MIA_TRANSACTIONS_LIST"
SANDBOX_DEMOPAY_URL == "SANDBOX_DEMOPAY_URL"
MIA_PAYMENTS_ID == "MIA_PAYMENTS_ID"
MIA_PAYMENTS_REFUND == "MIA_PAYMENTS_REFUND"
MIA_PAYMENTS == "MIA_PAYMENTS"

----------------------------------------------------------------------------
(* VictoriabankMiaApi *)

REQUIRED_QR_PARAMS == List(<<"header", "extension">>)
REQUIRED_TEST_PAY_PARAMS == List(<<"qrHeaderUUID">>)

\* what a call did: the transport invocations it made and how it ended
Result(s, h, o) == [sent |-> s, handled |-> h, outcome |-> o]

\* a token check that tests for None alone
ValidateAccessTokenNoneOnly(token) ==
    IF token.t = "None"
        THEN VictoriabankPaymentException(
                <<"Access token is not valid. It should be a non-empty string.">>, NoCause)
        ELSE NoError

\* a token check that keeps failing once a call has failed
ValidateAccessTokenSticky(token) ==
    IF outcome.kind = "raise" \/ ~Truthy(token)
        THEN VictoriabankPaymentException(
                <<"Access token is not valid. It should be a non-empty string.">>, NoCause)
        ELSE NoError

\* _validate_access_token: NoError, or the exception it raises
_validate_access_token(token) ==
    IF ~Truthy(token) \/ PyLen(token) = 0
        THEN VictoriabankPaymentException(
                <<"Access token is not valid. It should be a non-empty string.">>, NoCause)
        ELSE NoError

\* an identifier check that tests for None alone
ValidateIdParamNoneOnly(entity_id) ==
    IF entity_id.t = "None"
        THEN VictoriabankPaymentException(<<"Missing ID.">>, NoCause)
        ELSE NoError

\* _validate_id_param: NoError, or the exception it raises
_validate_id_param(entity_id) ==
    IF ~Truthy(entity_id)
        THEN VictoriabankPaymentException(<<"Missing ID.">>, NoCause)
    ELSE IF PyLen(entity_id) = 0
        THEN VictoriabankPaymentException(
                <<"Invalid ID parameter. Should be string of 36 characters.">>, NoCause)
    ELSE NoError

\* the positions of the required parameters for which data.get(param) is None
MissingParams(data, required_params) ==
    {i \in 1..Len(required_params.v) : DictGet(data, required_params.v[i]) = None}

\* the first element of a non-empty set of positions: where the for loop stops
FirstOf(S) == CHOOSE i \in S : \A j \in S : i <= j

\* _validate_params: NoError (it returns True), or the exception it raises
_validate_params(data, required_params) ==
    IF Truthy(data) /\ Truthy(required_params)
          /\ MissingParams(data, required_params) # {}
        THEN VictoriabankPaymentException(
                <<"Missing required parameter: ",
                  required_params.v[FirstOf(MissingParams(data, required_params))]>>,
                NoCause)
        ELSE NoError

\* the call with arguments `args` ends: what it did becomes the state
Complete(args, effect) ==
    /\ calls < MaxCalls
    /\ calls' = calls + 1
    /\ call' = args
    /\ sent' = effect.sent
    /\ handled' = effect.handled
    /\ outcome' = effect.outcome
    /\ UNCHANGED client

\* a request that drops the entity id
RequestWithoutEntityId(method, endpoint, token, data, params, entity_id, behaviour) ==
    [client |-> client, entity_id |-> None, data |-> data, params |-> params,
     token |-> token, method |-> method, url |-> endpoint, result |-> behaviour]

\* one invocation of self._client.send_request, and what it did (`behaviour`)
Request(method, endpoint, token, data, params, entity_id, behaviour) ==
    [client |-> client, entity_id |-> entity_id, data |-> data, params |-> params,
     token |-> token, method |-> method, url |-> endpoint, result |-> behaviour]

\* one invocation of self._client.handle_response, and what it did
Handling(response, endpoint) ==
    [client |-> client, response |-> response, endpoint |-> endpoint,
     result |-> handle_response(response, endpoint)]

\* a _send_request that calls handle_response inside the try block
SendRequestHandlingInTry(method, endpoint, token, data, params, entity_id, behaviour) ==
    IF behaviour.kind = "raise"
        THEN Result(<<Request(method, endpoint, token, data, params, entity_id, behaviour)>>,
                    <<>>,
                    Raised(VictoriabankPaymentException(
                        <<"HTTP error while sending ", method,
                          " request to endpoint ", endpoint, ": ",
                          StrOf(behaviour.exc)>>,
                        behaviour.exc)))
    ELSE IF handle_response(behaviour.value, endpoint).kind = "raise"
        THEN Result(<<Request(method, endpoint, token, data, params, entity_id, behaviour)>>,
                    <<Handling(behaviour.value, endpoint)>>,
                    Raised(VictoriabankPaymentException(
                        <<"HTTP error while sending ", method,
                          " request to endpoint ", endpoint, ": ",
                          StrOf(handle_response(behaviour.value, endpoint).exc)>>,
                        handle_response(behaviour.value, endpoint).exc)))
    ELSE Result(<<Request(method, endpoint, token, data, params, entity_id, behaviour)>>,
                <<Handling(behaviour.value, endpoint)>>,
                handle_response(behaviour.value, endpoint))

\* a _send_request that sends once more after a fault
SendRequestRetrying(method, endpoint, token, data, params, entity_id, behaviour) ==
    IF behaviour.kind = "raise"
        THEN Result(<<Request(method, endpoint, token, data, params, entity_id, behaviour),
                      Request(method, endpoint, token, data, params, entity_id, behaviour)>>,
                    <<>>,
                    Raised(VictoriabankPaymentException(
                        <<"HTTP error while sending ", method,
                          " request to endpoint ", endpoint, ": ",
                          StrOf(behaviour.exc)>>,
                        behaviour.exc)))
        ELSE Result(<<Request(method, endpoint, token, data, params, entity_id, behaviour)>>,
                    <<Handling(behaviour.value, endpoint)>>,
                    handle_response(behaviour.value, endpoint))

\* _send_request, given what self._client.send_request does with the request
SendRequestResult(method, endpoint, token, data, params, entity_id, behaviour) ==
    IF behaviour.kind = "raise"
        THEN IF behaviour.exc.type \in ExceptionClasses
                THEN Result(<<Request(method, endpoint, token, data, params, entity_id, behaviour)>>,
                            <<>>,
                            Raised(VictoriabankPaymentException(
                                <<"HTTP error while sending ", method,
                                  " request to endpoint ", endpoint, ": ",
                                  StrOf(behaviour.exc)>>,
                                behaviour.exc)))
                ELSE Result(<<Request(method, endpoint, token, data, params, entity_id, behaviour)>>,
                            <<>>,
                            Raised(behaviour.exc))
        ELSE Result(<<Request(method, endpoint, token, data, params, entity_id, behaviour)>>,
                    <<Handling(behaviour.value, endpoint)>>,
                    handle_response(behaviour.value, endpoint))

\* _send_request: the transport returns a response or raises a fault
_send_request(args, method, endpoint, token, data, params, entity_id) ==
    \E behaviour \in Behaviours :
        Complete(args,
                 SendRequestResult(method, endpoint, token, data, params, entity_id, behaviour))

\* the default of _execute_operation's method argument
ExecuteOperationDefaultMethod == "POST"

\* an identifier operation that defaults to the payload operations' verb
EntityIdOperationDefaultsToPost == "POST"

\* the default of _execute_entity_id_operation's method argument
ExecuteEntityIdOperationDefaultMethod == "GET"

_execute_operation(args, endpoint, data, token, required_params, method, params) ==
    IF _validate_params(data, required_params) # NoError
        THEN Complete(args, Result(<<>>, <<>>, Raised(_validate_params(data, required_params))))
    ELSE IF _validate_access_token(token) # NoError
        THEN Complete(args, Result(<<>>, <<>>, Raised(_validate_access_token(token))))
    ELSE _send_request(args, method, endpoint, token, data, params, None)

_execute_entity_id_operation(args, endpoint, entity_id, token, method, data, params) ==
    IF _validate_id_param(entity_id) # NoError
        THEN Complete(args, Result(<<>>, <<>>, Raised(_validate_id_param(entity_id))))
    ELSE IF _validate_access_token(token) # NoError
        THEN Complete(args, Result(<<>>, <<>>, Raised(_validate_access_token(token))))
    ELSE _send_request(args, method, endpoint, token, data, params, entity_id)

----------------------------------------------------------------------------
(* State machine *)

\* VictoriabankMiaApiRequest.create(base_url), then __init__(client)
Init ==
    /\ client \in {VictoriabankMiaSdk(b) : b \in BaseUrls}
    /\ calls = 0
    /\ call = [op |-> "none"]
    /\ sent = <<>>
    /\ handled = <<>>
    /\ outcome = [kind |-> "none"]

qr_create ==
    \E data \in Payloads, params \in Params, token \in Tokens :
        _execute_operation(Args("qr_create", None, data, params, token),
                           MIA_QR, data, token, REQUIRED_QR_PARAMS,
                           ExecuteOperationDefaultMethod, params)

qr_status ==
    \E qr_id \in Ids, params \in Params, token \in Tokens :
        _execute_entity_id_operation(Args("qr_status", qr_id, None, params, token),
                           MIA_QR_STATUS, qr_id, token,
                           ExecuteEntityIdOperationDefaultMethod, None, params)

qr_cancel ==
    \E qr_id \in Ids, token \in Tokens :
        _execute_entity_id_operation(Args("qr_cancel", qr_id, None, None, token),
                           MIA_QR_ID, qr_id, token, "DELETE", None, None)

qr_create_extension ==
    \E qr_id \in Ids, data \in OpaquePayloads, token \in Tokens :
        _execute_entity_id_operation(Args("qr_create_extension", qr_id, data, None, token),
                           MIA_QR_EXTENSIONS, qr_id, token, "POST", data, None)

qr_cancel_extension ==
    \E qr_id \in Ids, token \in Tokens :
        _execute_entity_id_operation(Args("qr_cancel_extension", qr_id, None, None, token),
                           MIA_QR_ACTIVE_EXTENSION, qr_id, token, "DELETE", None, None)

qr_extension_status ==
    \E qr_extension_id \in Ids, params \in Params, token \in Tokens :
        _execute_entity_id_operation(
                           Args("qr_extension_status", qr_extension_id, None, params, token),
                           MIA_QR_EXTENSION_STATUS, qr_extension_id, token,
                           ExecuteEntityIdOperationDefaultMethod, None, params)

transactions_list ==
    \E params \in Params, token \in Tokens :
        _execute_operation(Args("transactions_list", None, None, params, token),
                           MIA_TRANSACTIONS_LIST, None, token, None, "GET", params)

test_pay ==
    \E data \in Payloads, token \in Tokens :
        _execute_operation(Args("test_pay", None, data, None, token),
                           SANDBOX_DEMOPAY_URL, data, token, REQUIRED_TEST_PAY_PARAMS,
                           ExecuteOperationDefaultMethod, None)

payment_details ==
    \E pay_id \in Ids, token \in Tokens :
        _execute_entity_id_operation(Args("payment_details", pay_id, None, None, token),
                           MIA_PAYMENTS_ID, pay_id, token,
                           ExecuteEntityIdOperationDefaultMethod, None, None)

payment_refund ==
    \E pay_id \in Ids, data \in OpaquePayloads, token \in Tokens :
        _execute_entity_id_operation(Args("payment_refund", pay_id, data, None, token),
                           MIA_PAYMENTS_REFUND, pay_id, token, "POST", data, None)

payment_list ==
    \E params \in Params, token \in Tokens :
        _execute_operation(Args("payment_list", None, None, params, token),
                           MIA_PAYMENTS, None, token, None, "GET", params)

Next ==
    \/ qr_create
    \/ qr_status
    \/ qr_cancel
    \/ qr_create_extension
    \/ qr_cancel_extension
    \/ qr_extension_status
    \/ transactions_list
    \/ test_pay
    \/ payment_details
    \/ payment_refund
    \/ payment_list

Spec == Init /\ [][Next]_vars

----------------------------------------------------------------------------
(* What the specification says of a call, stated without the validators *)

PayloadOps == {"qr_create", "test_pay", "transactions_list", "payment_list"}
IdOps == {"qr_status", "qr_cancel", "qr_create_extension", "qr_cancel_extension",
          "qr_extension_status", "payment_details", "payment_refund"}
IdOpsWithoutPayload == {"qr_status", "qr_cancel", "qr_cancel_extension",
                        "qr_extension_status", "payment_details"}
PublicOps == PayloadOps \cup IdOps

PostOps == {"qr_create", "qr_create_extension", "test_pay", "payment_refund"}
GetOps == {"qr_status", "qr_extension_status", "transactions_list", "payment_details",
           "payment_list"}
DeleteOps == {"qr_cancel", "qr_cancel_extension"}

\* the operation table's verb
VerbOf(op) ==
    IF op \in PostOps THEN "POST" ELSE IF op \in GetOps THEN "GET" ELSE "DELETE"

\* the operation table's endpoint reference
EndpointOf(op) ==
    CASE op = "qr_create" -> MIA_QR
      [] op = "qr_status" -> MIA_QR_STATUS
      [] op = "qr_cancel" -> MIA_QR_ID
      [] op = "qr_create_extension" -> MIA_QR_EXTENSIONS
      [] op = "qr_cancel_extension" -> MIA_QR_ACTIVE_EXTENSION
      [] op = "qr_extension_status" -> MIA_QR_EXTENSION_STATUS
      [] op = "transactions_list" -> MIA_TRANSACTIONS_LIST
      [] op = "test_pay" -> SANDBOX_DEMOPAY_URL
      [] op = "payment_details" -> MIA_PAYMENTS_ID
      [] op = "payment_refund" -> MIA_PAYMENTS_REFUND
      [] op = "payment_list" -> MIA_PAYMENTS

\* the operation table's required fields
RequiredFieldsOf(op) ==
    IF op = "qr_create" THEN {"header", "extension"}
    ELSE IF op = "test_pay" THEN {"qrHeaderUUID"}
    ELSE {}

Called == calls > 0

\* the fields the last call's operation requires and its payload mapping lacks
MissingFields ==
    IF call.data.t = "dict"
        THEN {f \in RequiredFieldsOf(call.op) :
                f \notin DOMAIN call.data.v \/ call.data.v[f].t = "None"}
        ELSE {}

EmptyOrMissing(x) == x.t = "None" \/ (x.t = "str" /\ x.v = <<>>)

RaisedDomainError ==
    /\ outcome.kind = "raise"
    /\ outcome.exc.type = "VictoriabankPaymentException"

RaisedMissingField ==
    /\ RaisedDomainError
    /\ outcome.exc.msg[1] = "Missing required parameter: "
    /\ outcome.exc.msg[2] \in MissingFields

RaisedTokenError ==
    /\ RaisedDomainError
    /\ outcome.exc.msg[1] = "Access token is not valid. It should be a non-empty string."

RaisedIdError ==
    /\ RaisedDomainError
    /\ outcome.exc.msg[1] \in {"Missing ID.",
                               "Invalid ID parameter. Should be string of 36 characters."}

RaisedValidationError ==
    /\ RaisedDomainError
    /\ outcome.exc.msg[1] \in {"Missing required parameter: ",
                               "Access token is not valid. It should be a non-empty string.",
                               "Missing ID.",
                               "Invalid ID parameter. Should be string of 36 characters."}

\* the last call invoked send_request and it raised / returned
SendRaised == sent # <<>> /\ sent[1].result.kind = "raise"
SendReturned == sent # <<>> /\ sent[1].result.kind = "return"

----------------------------------------------------------------------------
(* Claims *)

\* C1, as stated: an operation with required fields, called with a payload mapping
\* (the empty one included) that lacks a required field or holds it as null, raises
\* the missing-field error naming a missing field, and send_request is not invoked.
C1_MissingFieldRejected ==
    (Called /\ MissingFields # {}) => (RaisedMissingField /\ sent = <<>>)

\* C2: every operation called with an empty or missing token, and a payload and an
\* identifier that are valid, raises the access-token error without invoking
\* send_request.
C2_TokenRejected ==
    (/\ Called
     /\ EmptyOrMissing(call.token)
     /\ MissingFields = {}
     /\ call.op \in IdOps => ~EmptyOrMissing(call.entity_id))
        => (RaisedTokenError /\ sent = <<>>)

C2_Witness ==
    /\ call.op = "qr_create"
    /\ call.data.t = "dict"
    /\ {"header", "extension"} \subseteq DOMAIN call.data.v
    /\ MissingFields = {}
    /\ call.token = Str(<<>>)
    /\ RaisedTokenError

\* C3: every identifier-based operation called with an empty or missing identifier
\* raises the identifier error without invoking send_request, whatever the token,
\* the payload and the params are.
C3_IdRejected ==
    (Called /\ call.op \in IdOps /\ EmptyOrMissing(call.entity_id))
        => (RaisedIdError /\ sent = <<>>)

C3_Witness ==
    /\ call.op = "payment_refund"
    /\ call.entity_id = Str(<<>>)
    /\ ~EmptyOrMissing(call.token)
    /\ RaisedIdError

\* C4: when send_request raises a fault, the call raises the domain exception that
\* carries the verb, the endpoint and the fault as its cause, and handle_response
\* is not invoked.
C4_FaultWrapped ==
    SendRaised =>
        /\ RaisedDomainError
        /\ outcome.exc.msg[1] = "HTTP error while sending "
        /\ outcome.exc.msg[2] = VerbOf(call.op)
        /\ outcome.exc.msg[4] = EndpointOf(call.op)
        /\ outcome.exc.cause = sent[1].result.exc
        /\ handled = <<>>

C4_Witness ==
    /\ SendRaised
    /\ sent[1].result.exc.type = "Timeout"
    /\ call.op = "qr_cancel"

\* C5: when send_request returns a response, handle_response is invoked exactly once
\* with that response and the operation's endpoint, and the call ends exactly as
\* handle_response ends: its value returned, or its domain error raised unchanged.
C5_ResponseHandled ==
    SendReturned =>
        /\ Len(handled) = 1
        /\ handled[1].response = sent[1].result.value
        /\ handled[1].endpoint = EndpointOf(call.op)
        /\ handled[1].client = client
        /\ outcome = handled[1].result

C5_Witness ==
    /\ SendReturned
    /\ sent[1].result.value.status = 404
    /\ outcome.kind = "raise"
    /\ call.op = "payment_details"

\* C6: an operation that passes validation dispatches with the verb and the endpoint
\* of the operation table, and with the caller's payload, params and token.
C6_OperationTable ==
    sent # <<>> =>
        /\ call.op \in PublicOps
        /\ sent[1].method = VerbOf(call.op)
        /\ sent[1].url = EndpointOf(call.op)
        /\ sent[1].data = call.data
        /\ sent[1].params = call.params
        /\ sent[1].token = call.token

C6_Witness ==
    /\ sent # <<>>
    /\ call.op = "qr_create"
    /\ call.data.t = "dict"
    /\ DOMAIN call.data.v = {"header", "extension"}
    /\ sent[1].method = "POST"
    /\ outcome.kind = "return"

\* C7: a call invokes send_request at most once: not at all when a validation
\* raised, exactly once otherwise; and a transport fault or a non-2xx response ends
\* the call with an exception.
C7_AtMostOneSend ==
    Called =>
        /\ Len(sent) = IF RaisedValidationError THEN 0 ELSE 1
        /\ SendRaised => outcome.kind = "raise"
        /\ (SendReturned /\ sent[1].result.value.status \notin 200..299)
                => outcome.kind = "raise"
        /\ outcome.kind = "return" => (SendReturned /\ sent[1].result.value.status \in 200..299)

C7_Witness ==
    /\ Len(sent) = 1
    /\ SendRaised
    /\ outcome.kind = "raise"
    /\ call.op = "transactions_list"

\* C8: an identifier-based operation passes the caller's identifier unchanged to
\* send_request as the entity id, and the identifier operations that take no payload
\* dispatch with no body.
C8_IdPassedOn ==
    (sent # <<>> /\ call.op \in IdOps) =>
        /\ sent[1].entity_id = call.entity_id
        /\ call.op \in IdOpsWithoutPayload => sent[1].data = None

C8_Witness ==
    /\ sent # <<>>
    /\ call.op = "qr_status"
    /\ call.params = Dict([k \in {} |-> None])
    /\ sent[1].entity_id = Str(<<"a">>)
    /\ sent[1].method = "GET"

\* C9: no call changes the dispatcher's transport-client reference, and a call that
\* repeats the previous call's arguments invokes the transport as often, and ends
\* the same way whenever the transport behaves the same way.
C9_Stateless ==
    [][/\ client' = client
       /\ (call' = call) =>
            /\ Len(sent') = Len(sent)
            /\ (sent' = sent) => (outcome' = outcome /\ handled' = handled)]_vars

C9_Witness ==
    /\ calls >= 2
    /\ SendRaised
    /\ call.op = "test_pay"

\* C10, as stated: the payload (or identifier) check comes before the token check, so
\* a payload operation called with a missing required field and an empty token raises
\* the missing-field error, an identifier operation called with an empty identifier
\* and an empty token raises the identifier error, and the token error is raised only
\* when the payload or identifier check passed.
C10_ValidationOrder ==
    Called =>
        /\ (MissingFields # {} /\ EmptyOrMissing(call.token)) => RaisedMissingField
        /\ (call.op \in IdOps /\ EmptyOrMissing(call.entity_id) /\ EmptyOrMissing(call.token))
                => RaisedIdError
        /\ RaisedTokenError =>
                /\ MissingFields = {}
                /\ call.op \in IdOps => ~EmptyOrMissing(call.entity_id)

====
